---- MODULE Spec2Model ----
(***************************************************************************)
(* Model of the lock_derive crate (src/src/lib.rs).                        *)
(*                                                                         *)
(* The locks! macro parses read: [..], write: [..] sections into       *)
(* Args.items (Args::parse), and write_resolve turns the items into a      *)
(* chain of name!(resolve mode).and_then(|__vI| ...) futures ending in   *)
(* Ok(Locks { name: __vI, .. }).  The model covers the parser, the code  *)
(* generator, and the execution of the generated chain by several          *)
(* concurrent callers against a shared pool of read/write locks.           *)
(***************************************************************************)
EXTENDS Integers, Sequences, FiniteSets, TLC

\* ---------------------------------------------------------------- bounds
NumCalls == 2       \* concurrent call sites / callers
NumNames == 3       \* lock identifiers; the integer is the identifier's rank
MaxList == 2        \* longest identifier list inside one [..] section
MaxSections == 2    \* most label: [..] sections in one macro input

Calls == 1..NumCalls
Names == 1..NumNames

\* Option<T> as a sequence of length at most one.
None == <<>>
Some(x) == <<x>>

SeqsUpTo(S, n) == UNION {[1..k -> S] : k \in 0..n}

Range(s) == {s[i] : i \in DOMAIN s}

\* What the resolver macro's future can fail with (failure::Error payloads).
Causes == {"Lock error", "closed"}

\* Section labels a caller can write in front of a bracketed list.
Labels == {"read", "write", "other"}

\* A section is label: [vec].
Section(l, v) == [label |-> l, vec |-> v]

\* Every macro input up to the bounds.
AllStreams ==
    SeqsUpTo({Section(l, v) : l \in Labels, v \in SeqsUpTo(Names, MaxList)},
             MaxSections)

\* The inputs of the call sites of the concurrent model: read: [..], write: [..].
CallStreams ==
    {<<Section("read", r), Section("write", w)>> :
        r \in SeqsUpTo(Names, MaxList), w \in SeqsUpTo(Names, MaxList)}

\* ------------------------------------------------------------ Args::parse
\* Ident's Ord, used by the sort comparator.
IdentLess(a, b) == a < b

\* Variant of ident: every mode is rendered as read.
ident_read(rw) == "read"

\* ReadWrite::ident
ident(rw) == IF rw = "Read" THEN "read" ELSE "write"

ParseError(span, msg) == [ok |-> FALSE, err |-> [span |-> span, msg |-> msg]]

\* Variant of ParseSections: a later section silently replaces an earlier one
\* of the same label.
RECURSIVE ParseSections_replacing(_, _, _, _)
ParseSections_replacing(stream, k, read, write) ==
    IF k > Len(stream) THEN [ok |-> TRUE, read |-> read, write |-> write]
    ELSE LET name == stream[k].label
             vec == stream[k].vec
             span == [section |-> k, pos |-> 0]
         IN  IF name = "read" THEN
                 ParseSections_replacing(stream, k + 1, Some(vec), write)
             ELSE IF name = "write" THEN
                 ParseSections_replacing(stream, k + 1, read, Some(vec))
             ELSE ParseError(span, "Expected 'read' or 'write'.")

\* The while !stream.is_empty() loop: fills the read and write options.
RECURSIVE ParseSections(_, _, _, _)
ParseSections(stream, k, read, write) ==
    IF k > Len(stream) THEN [ok |-> TRUE, read |-> read, write |-> write]
    ELSE LET name == stream[k].label
             vec == stream[k].vec
             span == [section |-> k, pos |-> 0]
         IN  IF name = "read" THEN
                 IF read # None
                 THEN ParseError(span, "'read' found more than once.")
                 ELSE ParseSections(stream, k + 1, Some(vec), write)
             ELSE IF name = "write" THEN
                 IF write # None
                 THEN ParseError(span, "'write' found more than once.")
                 ELSE ParseSections(stream, k + 1, read, Some(vec))
             ELSE ParseError(span, "Expected 'read' or 'write'.")

\* Index of the section with the given label (0 when absent).
SectionOf(stream, l) ==
    IF \E k \in DOMAIN stream : stream[k].label = l
    THEN CHOOSE k \in DOMAIN stream : stream[k].label = l
    ELSE 0

\* Variant of Chain: the write names are scanned before the read names.
Chain_write_first(stream, read, write) ==
    LET rv == IF read = None THEN <<>> ELSE read[1]
        wv == IF write = None THEN <<>> ELSE write[1]
    IN  [i \in 1..Len(wv) |->
            [ident |-> wv[i], read_write |-> "Write",
             span |-> [section |-> SectionOf(stream, "write"), pos |-> i]]]
        \o
        [i \in 1..Len(rv) |->
            [ident |-> rv[i], read_write |-> "Read",
             span |-> [section |-> SectionOf(stream, "read"), pos |-> i]]]

\* read.unwrap_or_else(Vec::new).map(|r| (r, Read)).chain(write ... Write)
Chain(stream, read, write) ==
    LET rv == IF read = None THEN <<>> ELSE read[1]
        wv == IF write = None THEN <<>> ELSE write[1]
    IN  [i \in 1..Len(rv) |->
            [ident |-> rv[i], read_write |-> "Read",
             span |-> [section |-> SectionOf(stream, "read"), pos |-> i]]]
        \o
        [i \in 1..Len(wv) |->
            [ident |-> wv[i], read_write |-> "Write",
             span |-> [section |-> SectionOf(stream, "write"), pos |-> i]]]

\* Variant of InsertAll: a repeated key silently replaces the earlier entry.
RECURSIVE InsertAll_overwrite(_, _, _)
InsertAll_overwrite(items, k, set) ==
    IF k > Len(items) THEN [ok |-> TRUE, set |-> set]
    ELSE InsertAll_overwrite(items, k + 1,
                             (items[k].ident :> items[k].read_write) @@ set)

\* The for (ident, read_write) in items loop over the HashMap set.
RECURSIVE InsertAll(_, _, _)
InsertAll(items, k, set) ==
    IF k > Len(items) THEN [ok |-> TRUE, set |-> set]
    ELSE IF items[k].ident \in DOMAIN set
         THEN ParseError(items[k].span, "Found multiple times.")
         ELSE InsertAll(items, k + 1,
                        (items[k].ident :> items[k].read_write) @@ set)

\* Everything of Args::parse up to the HashMap: Ok(set) or Err.
ParseSet(stream) ==
    LET s == ParseSections(stream, 1, None, None)
    IN  IF ~s.ok THEN s
        ELSE InsertAll(Chain(stream, s.read, s.write), 1, <<>>)

\* set.into_iter(): a HashMap yields its entries in an unspecified order.
IterOrders(set) ==
    {o \in [1..Cardinality(DOMAIN set) -> DOMAIN set] :
        \A i, j \in DOMAIN o : i # j => o[i] # o[j]}

IntoIter(set, o) == [i \in DOMAIN o |-> <<o[i], set[o[i]]>>]

\* Insert x into the sorted sequence s according to the comparator.
RECURSIVE SortedInsert(_, _)
SortedInsert(s, x) ==
    IF s = <<>> THEN <<x>>
    ELSE IF IdentLess(x[1], Head(s)[1]) THEN <<x>> \o s
    ELSE <<Head(s)>> \o SortedInsert(Tail(s), x)

RECURSIVE SortFrom(_, _, _)
SortFrom(v, k, acc) ==
    IF k > Len(v) THEN acc ELSE SortFrom(v, k + 1, SortedInsert(acc, v[k]))

\* Variant of sort_unstable_by: the HashMap's iteration order is kept.
sort_skipped(v) == v

\* items.sort_unstable_by(|a, b| a.0.cmp(&b.0))
sort_unstable_by(v) == SortFrom(v, 1, <<>>)

\* --------------------------------------------------------- write_resolve
\* Variant of OkLocks: the fields take the variables in the opposite order.
OkLocks_reversed(items) ==
    [kind |-> "Ok",
     fields |-> [i \in DOMAIN items |->
                    [name |-> items[i][1], v |-> Len(items) - i]]]

\* Ok(Locks { name_0: __v0, name_1: __v1, .. })
OkLocks(items) ==
    [kind |-> "Ok",
     fields |-> [i \in DOMAIN items |-> [name |-> items[i][1], v |-> i - 1]]]

\* name!(resolve t).and_then(|__vI| code)
AndThen(name, t, v, code) ==
    [kind |-> "and_then", name |-> name, t |-> t, v |-> v, code |-> code]

\* Variant of ResolveLoop: the first item ends up outermost.
RECURSIVE ResolveLoop_forward(_, _, _)
ResolveLoop_forward(items, k, inner_code) ==
    IF k > Len(items) THEN inner_code
    ELSE AndThen(items[k][1], ident(items[k][2]), k - 1,
                 ResolveLoop_forward(items, k + 1, inner_code))

\* The for (i, t) in args.items.iter().enumerate() loop: each round wraps
\* the code built so far, so the last item ends up outermost.
RECURSIVE ResolveLoop(_, _, _)
ResolveLoop(items, k, inner_code) ==
    IF k > Len(items) THEN inner_code
    ELSE ResolveLoop(items, k + 1,
                     AndThen(items[k][1], ident(items[k][2]), k - 1, inner_code))

write_resolve(items) == ResolveLoop(items, 1, OkLocks(items))

\* The body of fn resolve() -> impl futures::Future<..> must be a Future.
\* and_then yields one; a bare Ok(..) is a Result, which is only IntoFuture.
IsFuture(code) == code.kind = "and_then"


\* ------------------------------------------------------------------ state
VARIABLES
    stream,     \* per call site: the macro input, once expanded
    pc,         \* per call: where the call stands
    args,       \* per call site: the Result of Args::parse
    code,       \* per call site: the body generated for Locks::resolve
    fut,        \* per call: the and_then future being polled
    env,        \* per call: the __vI bindings captured by the pending closure
    locks,      \* per call: the Locks struct handed to the caller
    err,        \* per call: the error the future completed with
    invoked,    \* per call: the resolver invocations made, in order
    resolved    \* per call: what each resolver invocation returned, in order

vars == <<stream, pc, args, code, fut, env, locks, err, invoked, resolved>>

NoEnv == [v \in {} |-> v]

\* A guard of the lock `name`, taken with `t` (read or write) by call c.
Guard(name, t, c) == [lock |-> name, access |-> t, owner |-> c]

\* The guards a call owns: captured by its pending closure or in its Locks.
Held(c) ==
    Range(env[c]) \cup (IF locks[c] = None THEN {} ELSE Range(locks[c][1]))

AllHeld == UNION {Held(c) : c \in Calls}

\* RwLock: a read guard needs no writer, a write guard needs no guard at all.
CanAcquire(name, t) ==
    IF t = "read"
    THEN \A g \in AllHeld : g.lock = name => g.access = "read"
    ELSE \A g \in AllHeld : g.lock # name

Init ==
    /\ stream = [c \in Calls |-> None]
    /\ pc = [c \in Calls |-> "start"]
    /\ args = [c \in Calls |-> None]
    /\ code = [c \in Calls |-> None]
    /\ fut = [c \in Calls |-> None]
    /\ env = [c \in Calls |-> NoEnv]
    /\ locks = [c \in Calls |-> None]
    /\ err = [c \in Calls |-> None]
    /\ invoked = [c \in Calls |-> <<>>]
    /\ resolved = [c \in Calls |-> <<>>]

\* ---------------------------------------------------------------- actions
\* Args::parse on the input s, then write_all.
Expand(c, s) ==
    LET r == ParseSet(s)
    IN  /\ stream' = [stream EXCEPT ![c] = Some(s)]
        /\ IF ~r.ok
           THEN /\ args' = [args EXCEPT ![c] = Some(r)]
                /\ pc' = [pc EXCEPT ![c] = "parse_error"]
                /\ code' = code
           ELSE \E o \in IterOrders(r.set) :
                LET items == sort_unstable_by(IntoIter(r.set, o))
                    gen == write_resolve(items)
                IN  /\ args' = [args EXCEPT ![c] = Some([ok |-> TRUE, items |-> items])]
                    /\ code' = [code EXCEPT ![c] = Some(gen)]
                    /\ pc' = [pc EXCEPT ![c] =
                                IF IsFuture(gen) THEN "compiled" ELSE "type_error"]
        /\ UNCHANGED <<fut, env, locks, err, invoked, resolved>>

\* The locks! macro at call site c.
locks_macro(c) ==
    /\ pc[c] = "start"
    /\ \E s \in CallStreams : Expand(c, s)

\* Variant of resolve: a failed call is started over.
resolve_retry(c) ==
    /\ pc[c] \in {"compiled", "failed"}
    /\ LET f == code[c][1]
       IN  /\ fut' = [fut EXCEPT ![c] = Some(f)]
           /\ invoked' = [invoked EXCEPT ![c] = Append(@, <<f.name, f.t>>)]
    /\ pc' = [pc EXCEPT ![c] = "pending"]
    /\ UNCHANGED <<stream, args, code, env, locks, err, resolved>>

\* Variant of resolve: the two outermost resolvers are started together.
resolve_eager(c) ==
    /\ pc[c] = "compiled"
    /\ LET f == code[c][1]
       IN  /\ fut' = [fut EXCEPT ![c] = Some(f)]
           /\ invoked' = [invoked EXCEPT ![c] =
                 IF f.code.kind = "and_then"
                 THEN @ \o <<<<f.name, f.t>>, <<f.code.name, f.code.t>>>>
                 ELSE Append(@, <<f.name, f.t>>)]
    /\ pc' = [pc EXCEPT ![c] = "pending"]
    /\ UNCHANGED <<stream, args, code, env, locks, err, resolved>>

\* Locks::resolve(): evaluating the body invokes the outermost resolver.
resolve(c) ==
    /\ pc[c] = "compiled"
    /\ LET f == code[c][1]
       IN  /\ fut' = [fut EXCEPT ![c] = Some(f)]
           /\ invoked' = [invoked EXCEPT ![c] = Append(@, <<f.name, f.t>>)]
    /\ pc' = [pc EXCEPT ![c] = "pending"]
    /\ UNCHANGED <<stream, args, code, env, locks, err, resolved>>

\* The pending resolver future yields its guard; and_then calls the closure
\* |__vI| code, which either invokes the next resolver or builds Ok(Locks).
poll_ready(c) ==
    /\ pc[c] = "pending"
    /\ LET f == fut[c][1]
           g == Guard(f.name, f.t, c)
           bound == (f.v :> g) @@ env[c]
           inner == f.code
       IN  /\ CanAcquire(f.name, f.t)
           /\ resolved' = [resolved EXCEPT ![c] = Append(@, [name |-> f.name, ok |-> TRUE, guard |-> g])]
           /\ IF inner.kind = "and_then"
              THEN /\ fut' = [fut EXCEPT ![c] = Some(inner)]
                   /\ env' = [env EXCEPT ![c] = bound]
                   /\ invoked' = [invoked EXCEPT ![c] = Append(@, <<inner.name, inner.t>>)]
                   /\ UNCHANGED <<pc, locks>>
              ELSE /\ fut' = [fut EXCEPT ![c] = None]
                   /\ env' = [env EXCEPT ![c] = NoEnv]
                   /\ locks' = [locks EXCEPT ![c] =
                         Some([n \in {inner.fields[i].name : i \in DOMAIN inner.fields} |->
                                 LET i == CHOOSE i \in DOMAIN inner.fields : inner.fields[i].name = n
                                 IN  bound[inner.fields[i].v]])]
                   /\ pc' = [pc EXCEPT ![c] = "complete"]
                   /\ UNCHANGED invoked
    /\ UNCHANGED <<stream, args, code, err>>

\* Variant of poll_err: the captured guards outlive the failure.
poll_err_leak(c) ==
    /\ pc[c] = "pending"
    /\ \E cause \in Causes :
        /\ resolved' = [resolved EXCEPT ![c] = Append(@, [name |-> fut[c][1].name, ok |-> FALSE, cause |-> cause])]
        /\ err' = [err EXCEPT ![c] = Some([cause |-> cause])]
    /\ fut' = [fut EXCEPT ![c] = None]
    /\ pc' = [pc EXCEPT ![c] = "failed"]
    /\ UNCHANGED <<stream, args, code, env, locks, invoked>>

\* Variant of poll_err: the resolver's error is replaced by a fixed one.
poll_err_masked(c) ==
    /\ pc[c] = "pending"
    /\ \E cause \in Causes :
        /\ resolved' = [resolved EXCEPT ![c] = Append(@, [name |-> fut[c][1].name, ok |-> FALSE, cause |-> cause])]
        /\ err' = [err EXCEPT ![c] = Some([cause |-> "Lock error"])]
    /\ fut' = [fut EXCEPT ![c] = None]
    /\ env' = [env EXCEPT ![c] = NoEnv]
    /\ pc' = [pc EXCEPT ![c] = "failed"]
    /\ UNCHANGED <<stream, args, code, locks, invoked>>

\* The pending resolver future fails: and_then drops the closure with the
\* guards it captured and completes with the resolver's error.
poll_err(c) ==
    /\ pc[c] = "pending"
    /\ \E cause \in Causes :
        /\ resolved' = [resolved EXCEPT ![c] = Append(@, [name |-> fut[c][1].name, ok |-> FALSE, cause |-> cause])]
        /\ err' = [err EXCEPT ![c] = Some([cause |-> cause])]
    /\ fut' = [fut EXCEPT ![c] = None]
    /\ env' = [env EXCEPT ![c] = NoEnv]
    /\ pc' = [pc EXCEPT ![c] = "failed"]
    /\ UNCHANGED <<stream, args, code, locks, invoked>>

\* Variant of cancel: the captured guards outlive the dropped future.
cancel_leak(c) ==
    /\ pc[c] = "pending"
    /\ fut' = [fut EXCEPT ![c] = None]
    /\ pc' = [pc EXCEPT ![c] = "cancelled"]
    /\ UNCHANGED <<stream, args, code, env, locks, err, invoked, resolved>>

\* The caller drops the future while it is suspended on a resolver.
cancel(c) ==
    /\ pc[c] = "pending"
    /\ fut' = [fut EXCEPT ![c] = None]
    /\ env' = [env EXCEPT ![c] = NoEnv]
    /\ pc' = [pc EXCEPT ![c] = "cancelled"]
    /\ UNCHANGED <<stream, args, code, locks, err, invoked, resolved>>

\* Variant of release: the guards outlive the dropped Locks struct.
release_leak(c) ==
    /\ pc[c] = "complete"
    /\ pc' = [pc EXCEPT ![c] = "released"]
    /\ UNCHANGED <<stream, args, code, fut, env, locks, err, invoked, resolved>>

\* The caller drops the Locks struct: its guards are released.
release(c) ==
    /\ pc[c] = "complete"
    /\ locks' = [locks EXCEPT ![c] = None]
    /\ pc' = [pc EXCEPT ![c] = "released"]
    /\ UNCHANGED <<stream, args, code, fut, env, err, invoked, resolved>>

Next ==
    \E c \in Calls :
        \/ locks_macro(c)
        \/ resolve(c)
        \/ poll_ready(c)
        \/ poll_err(c)
        \/ cancel(c)
        \/ release(c)

Spec == Init /\ [][Next]_vars

\* The parser alone, on every macro input up to the bounds.
parse_input ==
    /\ pc[1] = "start"
    /\ \E s \in AllStreams : Expand(1, s)

NextParse == parse_input

SpecParse == Init /\ [][NextParse]_vars


\* ------------------------------------------------------- derived notions
Expanded(c) == pc[c] # "start"

Built(c) == Expanded(c) /\ args[c][1].ok

Items(c) == args[c][1].items

ItemNames(c) == {Items(c)[i][1] : i \in DOMAIN Items(c)}

\* The request set as the caller wrote it: the listed (name, mode) pairs.
ReadList(s) == s[1].vec

WriteList(s) == s[2].vec

Listed(s) ==
    [i \in 1..Len(ReadList(s)) |-> <<ReadList(s)[i], "Read">>]
    \o [i \in 1..Len(WriteList(s)) |-> <<WriteList(s)[i], "Write">>]

Pairs(s) == Range(Listed(s))

Repeats(s) == \E i, j \in DOMAIN Listed(s) : i # j /\ Listed(s)[i][1] = Listed(s)[j][1]

Last(q) == q[Len(q)]

\* Position of name n in a sequence of pairs whose first component is a name.
PosOf(q, n) == CHOOSE i \in DOMAIN q : q[i][1] = n

\* Call c is suspended on a lock that a guard of call d keeps it from taking.
WaitsFor(c, d) ==
    /\ pc[c] = "pending"
    /\ \E g \in Held(d) :
        /\ g.lock = fut[c][1].name
        /\ (fut[c][1].t = "write" \/ g.access = "write")

\* ----------------------------------------------------------------- claims
\* C1: no reachable state holds a cycle of calls in which each call waits
\* for a lock that a guard of the next call in the cycle keeps from it.
C1_NoDeadlockCycle ==
    ~ \E D \in (SUBSET Calls) \ {{}} : \A c \in D : \E d \in D : WaitsFor(c, d)

\* C1 witness: two calls whose request sets overlap on two names are both in
\* the chain, one of them blocked by a guard of the other.
C1_Witness ==
    \E c, d \in Calls :
        /\ c # d
        /\ WaitsFor(c, d)
        /\ pc[d] = "pending"
        /\ Cardinality(ItemNames(c) \cap ItemNames(d)) >= 2
        /\ Listed(stream[c][1]) # Listed(stream[d][1])

\* C2: a request set without a repeated name builds successfully; the output
\* holds exactly the listed (name, mode) pairs, each once, ascending by name,
\* and two listings of the same pairs build to the same output.
C2_BuildSorted ==
    /\ \A c \in Calls :
        (Expanded(c) /\ ~Repeats(stream[c][1])) =>
            /\ args[c][1].ok
            /\ Range(Items(c)) = Pairs(stream[c][1])
            /\ Len(Items(c)) = Cardinality(Pairs(stream[c][1]))
            /\ \A i, j \in DOMAIN Items(c) :
                   i < j => IdentLess(Items(c)[i][1], Items(c)[j][1])
    /\ \A c, d \in Calls :
        (/\ Expanded(c) /\ Expanded(d)
         /\ ~Repeats(stream[c][1]) /\ ~Repeats(stream[d][1])
         /\ Pairs(stream[c][1]) = Pairs(stream[d][1])) => args[c] = args[d]

\* C2 witness: two call sites list the same three pairs in different orders,
\* neither in ascending order, and both have been built.
C2_Witness ==
    \E c, d \in Calls :
        /\ Built(c) /\ Built(d)
        /\ Len(Items(c)) >= 3
        /\ Pairs(stream[c][1]) = Pairs(stream[d][1])
        /\ Listed(stream[c][1]) # Listed(stream[d][1])
        /\ Listed(stream[c][1]) # Items(c)
        /\ Listed(stream[d][1]) # Items(d)

\* C3: a request set in which a name occurs more than once fails to build
\* with the duplicate error, yields no items and no code, and the resolver is
\* never invoked for the call.
C3_DuplicateRejected ==
    \A c \in Calls :
        (Expanded(c) /\ Repeats(stream[c][1])) =>
            /\ pc[c] = "parse_error"
            /\ ~args[c][1].ok
            /\ args[c][1].err.msg = "Found multiple times."
            /\ code[c] = None
            /\ invoked[c] = <<>>
            /\ Held(c) = {}

\* C3 witness: one call site repeats a name across the read and the write
\* list and was rejected, while another call is running its chain.
C3_Witness ==
    \E c, d \in Calls :
        /\ pc[c] = "parse_error"
        /\ \E i \in DOMAIN ReadList(stream[c][1]), j \in DOMAIN WriteList(stream[c][1]) :
               ReadList(stream[c][1])[i] = WriteList(stream[c][1])[j]
        /\ pc[d] = "pending"


\* C4 as stated: within a call the resolver is invoked in ascending order of
\* name, the smaller of two requested names first.
C4_AscendingInvocation ==
    \A c \in Calls : \A i, j \in DOMAIN invoked[c] :
        i < j => IdentLess(invoked[c][i][1], invoked[c][j][1])

\* C4 amended: the chain processes the sorted items strictly from the last to
\* the first, so of two requested names the greater is invoked first: the
\* k-th resolver invocation is for the k-th item counted from the end, with
\* that item's mode.
C4_DescendingInvocation ==
    \A c \in Calls : \A k \in DOMAIN invoked[c] :
        /\ k <= Len(Items(c))
        /\ invoked[c][k] = <<Items(c)[Len(Items(c)) + 1 - k][1],
                             ident(Items(c)[Len(Items(c)) + 1 - k][2])>>

\* C4 witness: a call listing a smaller name for read and a greater name for
\* write has invoked the resolver for both.
C4_Witness ==
    \E c \in Calls :
        /\ Len(invoked[c]) >= 2
        /\ \E i \in DOMAIN ReadList(stream[c][1]), j \in DOMAIN WriteList(stream[c][1]) :
               IdentLess(ReadList(stream[c][1])[i], WriteList(stream[c][1])[j])

\* C5: once every resolver call of a call's items has succeeded, the call has
\* completed with a Locks struct holding one guard per requested name and no
\* other, each the guard the resolver returned for that very name.
C5_BundleKeyed ==
    \A c \in Calls :
        (/\ Built(c)
         /\ Len(resolved[c]) = Len(Items(c))
         /\ Len(Items(c)) > 0
         /\ \A k \in DOMAIN resolved[c] : resolved[c][k].ok) =>
            /\ pc[c] \in {"complete", "released"}
            /\ err[c] = None
            /\ pc[c] = "complete" =>
                /\ locks[c] # None
                /\ DOMAIN locks[c][1] = ItemNames(c)
                /\ \A n \in ItemNames(c) :
                       \E k \in DOMAIN resolved[c] :
                           /\ resolved[c][k].name = n
                           /\ resolved[c][k].guard = locks[c][1][n]
                           /\ locks[c][1][n].lock = n

\* C5 witness: a call with three requests of mixed modes has completed.
C5_Witness ==
    \E c \in Calls :
        /\ pc[c] = "complete"
        /\ Len(Items(c)) >= 3
        /\ \E i, j \in DOMAIN Items(c) : Items(c)[i][2] # Items(c)[j][2]

\* C6: when the resolver has failed for a request, the call has failed, no
\* Locks struct exists and the call holds no guard; a Locks struct, when it
\* exists, has a guard for every requested name.
C6_NoPartialBundle ==
    \A c \in Calls :
        /\ (\E k \in DOMAIN resolved[c] : ~resolved[c][k].ok) =>
            /\ pc[c] = "failed"
            /\ err[c] # None
            /\ locks[c] = None
            /\ Held(c) = {}
        /\ locks[c] # None => DOMAIN locks[c][1] = ItemNames(c)

\* C6 witness: a call failed on its third request after two guards had been
\* acquired.
C6_Witness ==
    \E c \in Calls :
        /\ pc[c] = "failed"
        /\ Len(resolved[c]) >= 3
        /\ resolved[c][1].ok /\ resolved[c][2].ok

\* C7 as stated: the error of a failed call carries the name of the failing
\* request together with the resolver's cause.
C7_ErrorNamesRequest ==
    \A c \in Calls :
        pc[c] = "failed" =>
            /\ "name" \in DOMAIN err[c][1]
            /\ err[c][1].name = Last(resolved[c]).name
            /\ err[c][1].cause = Last(resolved[c]).cause

\* C7 amended: the error of a failed call is the resolver's error itself,
\* unchanged: it carries the underlying cause and nothing else, in particular
\* not the name of the failing request.
C7_ErrorIsResolverError ==
    \A c \in Calls :
        pc[c] = "failed" =>
            /\ ~Last(resolved[c]).ok
            /\ err[c] = Some([cause |-> Last(resolved[c]).cause])

\* C7 witness: a call failed on a later request with the second cause.
C7_Witness ==
    \E c \in Calls :
        /\ pc[c] = "failed"
        /\ Len(resolved[c]) >= 2
        /\ Last(resolved[c]).cause = "closed"

\* C8: names shared by two built request sets stand in the same relative
\* order in both outputs, and the two calls invoke the resolver for them in
\* the same relative order.
C8_SharedOrder ==
    \A c, d \in Calls :
        (Built(c) /\ Built(d)) =>
            \A x, y \in ItemNames(c) \cap ItemNames(d) :
                /\ (PosOf(Items(c), x) < PosOf(Items(c), y))
                       <=> (PosOf(Items(d), x) < PosOf(Items(d), y))
                /\ (/\ x \in {invoked[c][i][1] : i \in DOMAIN invoked[c]}
                    /\ y \in {invoked[c][i][1] : i \in DOMAIN invoked[c]}
                    /\ x \in {invoked[d][i][1] : i \in DOMAIN invoked[d]}
                    /\ y \in {invoked[d][i][1] : i \in DOMAIN invoked[d]}) =>
                       ((PosOf(invoked[c], x) < PosOf(invoked[c], y))
                           <=> (PosOf(invoked[d], x) < PosOf(invoked[d], y)))

\* C8 witness: two calls share two names, listed in opposite orders and with
\* different modes, and both have invoked the resolver for both names.
C8_Witness ==
    \E c, d \in Calls : \E x, y \in Names :
        /\ c # d /\ x # y
        /\ Len(invoked[c]) >= 2 /\ Len(invoked[d]) >= 2
        /\ {x, y} \subseteq {invoked[c][i][1] : i \in DOMAIN invoked[c]}
        /\ {x, y} \subseteq {invoked[d][i][1] : i \in DOMAIN invoked[d]}
        /\ PosOf(Listed(stream[c][1]), x) < PosOf(Listed(stream[c][1]), y)
        /\ PosOf(Listed(stream[d][1]), y) < PosOf(Listed(stream[d][1]), x)
        /\ Listed(stream[c][1])[PosOf(Listed(stream[c][1]), x)][2]
               # Listed(stream[d][1])[PosOf(Listed(stream[d][1]), x)][2]

\* C9: a call cancelled while suspended on a resolver holds no guard, has no
\* Locks struct, and has invoked the resolver for nothing beyond the request
\* it was suspended on.
C9_CancelReleases ==
    \A c \in Calls :
        pc[c] = "cancelled" =>
            /\ Held(c) = {}
            /\ locks[c] = None
            /\ fut[c] = None
            /\ Len(invoked[c]) = Len(resolved[c]) + 1

\* C9 witness: a call was cancelled after acquiring a guard, with requests
\* still to go.
C9_Witness ==
    \E c \in Calls :
        /\ pc[c] = "cancelled"
        /\ Len(resolved[c]) >= 1
        /\ Len(invoked[c]) < Len(Items(c))

\* C10 as stated: an empty request set builds to empty items, and resolving
\* it is possible and ends in an empty Locks struct without any resolver
\* invocation.
C10_EmptyResolves ==
    \A c \in Calls :
        (Expanded(c) /\ Listed(stream[c][1]) = <<>>) =>
            /\ args[c][1].ok
            /\ Items(c) = <<>>
            /\ invoked[c] = <<>>
            /\ pc[c] \notin {"parse_error", "type_error"}
            /\ pc[c] = "complete" => locks[c] = Some(NoEnv)


\* The k-th resolver future of the generated chain, counted from the outside.
RECURSIVE ChainStep(_, _)
ChainStep(term, k) == IF k = 1 THEN term ELSE ChainStep(term.code, k - 1)

\* Number of resolver futures nested in the generated chain.
RECURSIVE ChainLen(_)
ChainLen(term) == IF term.kind = "and_then" THEN 1 + ChainLen(term.code) ELSE 0

\* C11: within one call at most one resolver acquisition is in flight, the
\* next one is started only after the previous one returned its guard, and
\* the invocations follow the generated chain step by step, none skipped and
\* none out of place.
C11_Sequential ==
    \A c \in Calls :
        /\ Len(invoked[c]) - Len(resolved[c]) \in {0, 1}
        /\ pc[c] = "pending" => Len(invoked[c]) = Len(resolved[c]) + 1
        /\ \A k \in DOMAIN resolved[c] : resolved[c][k].name = invoked[c][k][1]
        /\ \A k \in DOMAIN invoked[c] :
            /\ k > 1 => (k - 1 \in DOMAIN resolved[c] /\ resolved[c][k - 1].ok)
            /\ k <= ChainLen(code[c][1])
            /\ invoked[c][k] = <<ChainStep(code[c][1], k).name,
                                 ChainStep(code[c][1], k).t>>

\* C11 witness: a call is suspended on its third request, the first two
\* having returned their guards.
C11_Witness ==
    \E c \in Calls :
        /\ pc[c] = "pending"
        /\ Len(invoked[c]) = 3
        /\ Len(resolved[c]) = 2


\* C12: a call that has failed or completed makes no further resolver
\* invocation and gets no further resolver result; a failed call stays
\* failed with the same error, a completed call never turns into a failed or
\* pending one, and no call ever has both an error and a Locks struct.
C12_Terminal ==
    [][\A c \in Calls :
        /\ pc[c] \in {"failed", "complete", "released"} =>
            /\ invoked'[c] = invoked[c]
            /\ resolved'[c] = resolved[c]
            /\ err'[c] = err[c]
            /\ fut'[c] = None
            /\ pc[c] = "failed" => (pc'[c] = "failed" /\ locks'[c] = None)
            /\ pc[c] # "failed" => pc'[c] \in {"complete", "released"}
        /\ ~(err'[c] # None /\ locks'[c] # None)]_vars

\* C12 witness: one call failed with requests of its chain still untried, and
\* another call completed and released its Locks struct.
C12_Witness ==
    \E c, d \in Calls :
        /\ pc[c] = "failed"
        /\ Len(invoked[c]) < Len(Items(c))
        /\ pc[d] = "released"


\* C13: a call invokes the resolver at most once per name, only for names the
\* caller listed, with read for names of the read list and write for names
\* of the write list; a call that completed invoked it exactly once for
\* every listed name.
C13_OncePerName ==
    \A c \in Calls :
        /\ \A i, j \in DOMAIN invoked[c] :
               i # j => invoked[c][i][1] # invoked[c][j][1]
        /\ \A k \in DOMAIN invoked[c] :
            /\ invoked[c][k][1] \in
                   Range(ReadList(stream[c][1])) \cup Range(WriteList(stream[c][1]))
            /\ invoked[c][k][1] \in Range(ReadList(stream[c][1]))
                   => invoked[c][k][2] = "read"
            /\ invoked[c][k][1] \in Range(WriteList(stream[c][1]))
                   => invoked[c][k][2] = "write"
        /\ pc[c] \in {"complete", "released"} =>
            /\ {invoked[c][k][1] : k \in DOMAIN invoked[c]} =
                   Range(ReadList(stream[c][1])) \cup Range(WriteList(stream[c][1]))
            /\ Len(invoked[c]) =
                   Len(ReadList(stream[c][1])) + Len(WriteList(stream[c][1]))

\* C13 witness: a call listing names in both the read and the write list has
\* completed after three resolver invocations.
C13_Witness ==
    \E c \in Calls :
        /\ pc[c] = "complete"
        /\ Len(invoked[c]) = 3
        /\ ReadList(stream[c][1]) # <<>>
        /\ WriteList(stream[c][1]) # <<>>


\* A macro input whose sections are labelled read or write, each at most once.
WellFormed(s) ==
    /\ \A k \in DOMAIN s : s[k].label \in {"read", "write"}
    /\ \A k, m \in DOMAIN s : k # m => s[k].label # s[m].label

\* The identifier tokens of the sections labelled l, in listed order.
Tokens(s, l) ==
    LET ks == {k \in DOMAIN s : s[k].label = l}
    IN  IF ks = {} THEN <<>>
        ELSE LET k == CHOOSE k \in ks : TRUE
             IN  [i \in DOMAIN s[k].vec |->
                     [name |-> s[k].vec[i], section |-> k, pos |-> i]]

\* All read-mode tokens in listed order, then all write-mode tokens.
Scan(s) == Tokens(s, "read") \o Tokens(s, "write")

\* The scan positions whose name already occurred earlier in the scan.
RepeatsAt(s) ==
    {j \in DOMAIN Scan(s) : \E i \in 1..(j - 1) : Scan(s)[i].name = Scan(s)[j].name}

FirstRepeat(s) == CHOOSE j \in RepeatsAt(s) : \A m \in RepeatsAt(s) : j <= m

\* C14: when names repeat, the error is the duplicate error and it is placed
\* on the first repeated occurrence met when scanning the read names in
\* listed order and then the write names in listed order; the token it is
\* placed on is the offending name.
C14_FirstRepeatReported ==
    \A c \in Calls :
        (/\ Expanded(c)
         /\ WellFormed(stream[c][1])
         /\ RepeatsAt(stream[c][1]) # {}) =>
            LET s == stream[c][1]
                tok == Scan(s)[FirstRepeat(s)]
                e == args[c][1].err
            IN  /\ ~args[c][1].ok
                /\ e.msg = "Found multiple times."
                /\ e.span = [section |-> tok.section, pos |-> tok.pos]
                /\ s[e.span.section].vec[e.span.pos] = tok.name

\* C14 witness: the write section is written first, two different names are
\* repeated, and the input was rejected.
C14_Witness ==
    \E c \in Calls :
        /\ pc[c] = "parse_error"
        /\ WellFormed(stream[c][1])
        /\ stream[c][1][1].label = "write"
        /\ \E j, m \in RepeatsAt(stream[c][1]) :
               Scan(stream[c][1])[j].name # Scan(stream[c][1])[m].name


\* The sections that are not acceptable where they stand: a label other than
\* read or write, or a label already used by an earlier section.
BadSections(s) ==
    {k \in DOMAIN s :
        \/ s[k].label \notin {"read", "write"}
        \/ \E m \in 1..(k - 1) : s[m].label = s[k].label}

\* C17: an input with a section labelled neither read nor write, or with a
\* second read or second write section, fails to build: the error is placed
\* on the label of the first such section and says which of the two it is,
\* no items and no code are produced, whatever the names listed.
C17_SectionsChecked ==
    \A c \in Calls :
        (Expanded(c) /\ BadSections(stream[c][1]) # {}) =>
            LET s == stream[c][1]
                k == CHOOSE k \in BadSections(s) : \A m \in BadSections(s) : k <= m
                e == args[c][1].err
            IN  /\ pc[c] = "parse_error"
                /\ ~args[c][1].ok
                /\ code[c] = None
                /\ e.span = [section |-> k, pos |-> 0]
                /\ e.msg = IF s[k].label = "read" THEN "'read' found more than once."
                           ELSE IF s[k].label = "write" THEN "'write' found more than once."
                           ELSE "Expected 'read' or 'write'."

\* C17 witness: an input with two read sections listing different names was
\* rejected.
C17_Witness ==
    \E c \in Calls :
        /\ pc[c] = "parse_error"
        /\ Len(stream[c][1]) = 2
        /\ stream[c][1][1].label = "read"
        /\ stream[c][1][2].label = "read"
        /\ stream[c][1][1].vec # <<>>
        /\ stream[c][1][2].vec # <<>>
        /\ Range(stream[c][1][1].vec) \cap Range(stream[c][1][2].vec) = {}


\* C15: a call that stays pending or completes loses none of the guards it
\* holds; a completed call keeps its guards unchanged until it releases them;
\* at completion it holds a guard of the requested mode for every requested
\* name at once; after the Locks struct is dropped it holds none.
C15_GuardsKept ==
    [][\A c \in Calls :
        /\ (pc[c] = "pending" /\ pc'[c] \in {"pending", "complete"}) =>
               Held(c) \subseteq Held(c)'
        /\ (pc[c] = "complete" /\ pc'[c] = "complete") => Held(c)' = Held(c)
        /\ pc'[c] = "complete" =>
            /\ {g.lock : g \in Held(c)'} = ItemNames(c)
            /\ Cardinality(Held(c)') = Len(Items(c))
            /\ \A g \in Held(c)' :
                   <<g.lock, IF g.access = "read" THEN "Read" ELSE "Write">>
                       \in Range(Items(c))
        /\ pc'[c] = "released" => Held(c)' = {}]_vars

\* C15 witness: a completed call holds three guards while another call is
\* suspended on one of them.
C15_Witness ==
    \E c, d \in Calls :
        /\ pc[c] = "complete"
        /\ Cardinality(Held(c)) = 3
        /\ c # d
        /\ WaitsFor(d, c)


\* The calls when no resolver fails and no caller drops a pending future.
NextLive ==
    \E c \in Calls :
        \/ locks_macro(c)
        \/ resolve(c)
        \/ poll_ready(c)
        \/ release(c)

\* A fair executor polls a future whose lock stays available, and every
\* caller eventually drops the Locks struct it received.
Fairness ==
    \A c \in Calls : WF_vars(poll_ready(c)) /\ WF_vars(release(c))

SpecLive == Init /\ [][NextLive]_vars /\ Fairness

\* C16: with no resolver failure, no cancellation, fair polling and callers
\* that release their Locks struct, every call that has started its chain
\* eventually completes.
C16_EventuallyComplete ==
    \A c \in Calls : (pc[c] = "pending") ~> (pc[c] = "complete")

\* C16 witness: a call has completed while the other call, which shares two
\* names with it, is blocked by one of its guards.
C16_Witness ==
    \E c, d \in Calls :
        /\ c # d
        /\ pc[c] = "complete"
        /\ WaitsFor(d, c)
        /\ Len(resolved[d]) >= 1
        /\ Cardinality(ItemNames(c) \cap ItemNames(d)) >= 2

====
